---------------------------- MODULE Spec2Model ----------------------------
(***************************************************************************)
(* State-machine model of the discret11audio raw audio parser              *)
(* (gst/discret11/gstdiscret11audioparse.c): the two configurations        *)
(* (properties_config, sink_caps_config), the current_config pointer, the  *)
(* property setters, the GstDiscret11Parse vfuncs and the stop handler.    *)
(***************************************************************************)
EXTENDS Integers, Sequences, FiniteSets, TLC

(***************************************************************************)
(* Bounds of the model.                                                    *)
(***************************************************************************)
\* Largest channel count any modelled input (num-channels property,
\* channel-positions array, caps "channels" field) carries.  The arrays
\* channel_positions[64] / reordered_channel_positions[64] are modelled by
\* sequences of this length.
MaxChannels == 2

\* Number of calls (property sets, vfunc calls, stop) the environment makes
\* on one element after constructing it.
MaxCalls == 3

\* Largest number of complete frames an input buffer handed to process
\* holds.
MaxFrames == 2

(***************************************************************************)
(* Program constants.                                                      *)
(***************************************************************************)
DEFAULT_SAMPLE_RATE == 44100
DEFAULT_NUM_CHANNELS == 2
DEFAULT_INTERLEAVED == TRUE
DEFAULT_FORMAT == "PCM"
DEFAULT_PCM_FORMAT == "S16LE"

\* GstDiscret11AudioParseFormat
Formats == {"PCM", "MULAW", "ALAW"}

\* GstDiscret11ParseConfig
ConfigIds == {"CURRENT", "SINKCAPS", "PROPERTIES"}

\* GstAudioChannelPosition codes used by the library helpers.
GST_AUDIO_CHANNEL_POSITION_NONE == -3
GST_AUDIO_CHANNEL_POSITION_MONO == -2
GST_AUDIO_CHANNEL_POSITION_INVALID == -1
GST_AUDIO_CHANNEL_POSITION_FRONT_LEFT == 0
GST_AUDIO_CHANNEL_POSITION_FRONT_RIGHT == 1
\* Number of entries of the library's default_channel_order table; the
\* positioned codes are 0 .. NumPositions - 1 and their canonical order is
\* ascending.
NumPositions == 28

\* Marks a string field that a caps structure does not carry.
Absent == "absent"

\* A caps structure: media type name, "format" and "layout" strings (Absent
\* when missing), and the "rate", "channels" and "channel-mask" fields, each
\* with a flag telling whether the structure carries it.  A channel mask is
\* the set of its bit numbers.
MakeCaps(name, format, layout, has_rate, rate, has_chans, chans, has_mask, mask) ==
    [name |-> name, format |-> format, layout |-> layout,
     has_rate |-> has_rate, rate |-> rate,
     has_channels |-> has_chans, channels |-> chans,
     has_mask |-> has_mask, mask |-> mask]

\* A NULL GstCaps pointer.
NullCaps == MakeCaps("NULL", Absent, Absent, FALSE, 0, FALSE, 0, FALSE, {})

\* The first n entries of an array, as a list.
FirstEntries(array, n) == [i \in 1..n |-> array[i]]

(***************************************************************************)
(* GStreamer audio library helpers (gst-libs/gst/audio).                   *)
(***************************************************************************)
\* GST_AUDIO_FORMAT_INFO_WIDTH (gst_audio_format_get_info (fmt)).
FormatWidth(fmt) ==
    CASE fmt = "UNKNOWN" -> 0
      [] fmt = "S8" -> 8
      [] fmt = "U8" -> 8
      [] fmt = "S16LE" -> 16
      [] fmt = "S16BE" -> 16
      [] fmt = "S24_32LE" -> 32
      [] fmt = "S32LE" -> 32
      [] fmt = "S24LE" -> 24
      [] fmt = "S20LE" -> 24
      [] fmt = "S18LE" -> 24
      [] fmt = "F32LE" -> 32
      [] fmt = "F64LE" -> 64

\* The elements of a channel mask (a set of bit numbers) in ascending order.
RECURSIVE MaskBits(_)
MaskBits(mask) ==
    IF mask = {} THEN << >>
    ELSE LET lo == CHOOSE b \in mask : \A c \in mask : b <= c
         IN  << lo >> \o MaskBits(mask \ {lo})

\* gst_audio_channel_get_fallback_mask: the default mask for a channel count
\* (0 for one channel and for more than eight).
gst_audio_channel_get_fallback_mask(channels) ==
    CASE channels = 2 -> {0, 1}
      [] channels = 3 -> {0, 1, 3}
      [] channels = 4 -> {0, 1, 4, 5}
      [] channels = 5 -> {0, 1, 2, 4, 5}
      [] channels = 6 -> {0, 1, 2, 3, 4, 5}
      [] channels = 7 -> {0, 1, 2, 3, 4, 5, 8}
      [] channels = 8 -> {0, 1, 2, 3, 4, 5, 10, 11}
      [] OTHER -> {}

\* gst_audio_channel_positions_from_mask: [ret, position].  A zero mask
\* gives MONO for one channel, FRONT_LEFT/FRONT_RIGHT for two and fails for
\* more.  A nonzero mask writes the first `channels` entries of `position`
\* from its bits; with fewer bits than channels the remaining entries keep
\* what the array held, and the call still reports success.
gst_audio_channel_positions_from_mask(channels, channel_mask, position) ==
    IF channel_mask = {}
    THEN IF channels = 1
         THEN [ret |-> TRUE,
               position |->
                   [position EXCEPT ![1] = GST_AUDIO_CHANNEL_POSITION_MONO]]
         ELSE IF channels = 2
         THEN [ret |-> TRUE,
               position |->
                   [position EXCEPT
                       ![1] = GST_AUDIO_CHANNEL_POSITION_FRONT_LEFT,
                       ![2] = GST_AUDIO_CHANNEL_POSITION_FRONT_RIGHT]]
         ELSE [ret |-> FALSE, position |-> position]
    ELSE LET bits == MaskBits(channel_mask)
         IN  [ret |-> TRUE,
              position |->
                  [i \in DOMAIN position |->
                      IF i <= channels /\ i <= Len(bits) THEN bits[i]
                      ELSE position[i]]]

\* check_valid_channel_positions: a lone MONO, or a list that starts with
\* NONE, is valid; otherwise every entry must be a positioned code, no code
\* may occur twice and, with enforce_order, the codes must follow the
\* default channel order.
gst_audio_check_valid_channel_positions(position, channels, enforce_order) ==
    IF channels = 1 /\ position[1] = GST_AUDIO_CHANNEL_POSITION_MONO THEN TRUE
    ELSE IF channels > 0 /\ position[1] = GST_AUDIO_CHANNEL_POSITION_NONE THEN TRUE
    ELSE /\ \A i \in 1..channels : position[i] \in 0..(NumPositions - 1)
         /\ \A i, j \in 1..channels : i < j => position[i] # position[j]
         /\ enforce_order =>
               \A i, j \in 1..channels : i < j => position[i] < position[j]

\* gst_audio_channel_positions_to_mask: [ret, mask].
gst_audio_channel_positions_to_mask(position, channels, force_order) ==
    IF ~gst_audio_check_valid_channel_positions(position, channels, force_order)
    THEN [ret |-> FALSE, mask |-> {}]
    ELSE IF position[1] \in {GST_AUDIO_CHANNEL_POSITION_MONO,
                             GST_AUDIO_CHANNEL_POSITION_NONE}
         THEN [ret |-> TRUE, mask |-> {}]
         ELSE [ret |-> TRUE, mask |-> {position[i] : i \in 1..channels}]

\* gst_audio_channel_positions_to_valid_order: [ret, position].  Fails, and
\* leaves the array as it is, when the positions are not a valid set.
gst_audio_channel_positions_to_valid_order(position, channels) ==
    IF ~gst_audio_check_valid_channel_positions(position, channels, FALSE)
    THEN [ret |-> FALSE, position |-> position]
    ELSE IF position[1] \in {GST_AUDIO_CHANNEL_POSITION_MONO,
                             GST_AUDIO_CHANNEL_POSITION_NONE}
         THEN [ret |-> TRUE, position |-> position]
         ELSE LET bits == MaskBits({position[i] : i \in 1..channels})
              IN  [ret |-> TRUE,
                   position |-> [i \in DOMAIN position |->
                                    IF i <= channels THEN bits[i]
                                    ELSE position[i]]]


\* GstAudioInfo as gst_audio_info_set_format fills it: a position list that
\* is not valid in canonical order is replaced by an all-NONE (unpositioned)
\* layout; an UNKNOWN format leaves the info unset.
gst_audio_info_set_format(format, rate, channels, position) ==
    LET valid == gst_audio_check_valid_channel_positions(position, channels, TRUE)
        pos == IF valid THEN FirstEntries(position, channels)
               ELSE [i \in 1..channels |-> GST_AUDIO_CHANNEL_POSITION_NONE]
    IN  [set |-> format # "UNKNOWN",
         format |-> format, rate |-> rate, channels |-> channels,
         bpf |-> (FormatWidth(format) * channels) \div 8,
         layout |-> "interleaved",
         unpositioned |-> pos[1] = GST_AUDIO_CHANNEL_POSITION_NONE,
         position |-> pos]

\* gst_audio_info_from_caps: [ret, info].  The caps must be audio/x-raw and
\* carry format, layout, rate and channels; without a channel mask only one
\* or two channels have a default layout.
gst_audio_info_from_caps(caps) ==
    LET bad == \/ caps.name # "audio/x-raw"
               \/ caps.format \in {Absent, "UNKNOWN"}
               \/ caps.layout = Absent
               \/ ~caps.has_rate
               \/ ~caps.has_channels
               \/ caps.channels < 1
               \/ (~caps.has_mask /\ caps.channels \notin {1, 2})
        scratch == [i \in 1..MaxChannels |-> GST_AUDIO_CHANNEL_POSITION_INVALID]
        position ==
            IF ~caps.has_mask \/ (caps.mask = {} /\ caps.channels = 1)
            THEN IF caps.channels = 1
                 THEN [scratch EXCEPT ![1] = GST_AUDIO_CHANNEL_POSITION_MONO]
                 ELSE [scratch EXCEPT ![1] = GST_AUDIO_CHANNEL_POSITION_FRONT_LEFT,
                                      ![2] = GST_AUDIO_CHANNEL_POSITION_FRONT_RIGHT]
            ELSE IF caps.mask = {}
                 THEN [i \in 1..MaxChannels |-> GST_AUDIO_CHANNEL_POSITION_NONE]
                 ELSE gst_audio_channel_positions_from_mask(
                          caps.channels, caps.mask, scratch).position
    IN  IF bad THEN [ret |-> FALSE]
        ELSE [ret |-> TRUE,
              info |-> [gst_audio_info_set_format(caps.format, caps.rate,
                                                  caps.channels, position)
                        EXCEPT !.layout = caps.layout]]

\* gst_audio_info_to_caps: NULL for an unset info; a channel mask is
\* attached except for plain mono.
gst_audio_info_to_caps(info) ==
    IF ~info.set THEN NullCaps
    ELSE LET mono == info.channels = 1
                     /\ info.position[1] = GST_AUDIO_CHANNEL_POSITION_MONO
             m == IF info.unpositioned THEN [ret |-> TRUE, mask |-> {}]
                  ELSE gst_audio_channel_positions_to_mask(info.position,
                                                           info.channels, TRUE)
         IN  IF ~mono /\ ~m.ret THEN NullCaps
             ELSE MakeCaps("audio/x-raw", info.format, info.layout,
                           TRUE, info.rate, TRUE, info.channels,
                           ~mono, IF mono THEN {} ELSE m.mask)

\* gst_audio_get_channel_reorder_map: [ret, map].  Both lists must be valid
\* sets of positioned codes and every `from` position must occur in `to`;
\* map[i] is the index in `to` of from[i].
gst_audio_get_channel_reorder_map(channels, from, to) ==
    LET positioned(l) == \A i \in 1..channels : l[i] \in 0..(NumPositions - 1)
        ok == /\ channels > 0
              /\ gst_audio_check_valid_channel_positions(from, channels, FALSE)
              /\ gst_audio_check_valid_channel_positions(to, channels, FALSE)
              /\ positioned(from)
              /\ positioned(to)
              /\ \A i \in 1..channels : \E j \in 1..channels : to[j] = from[i]
    IN  IF ~ok THEN [ret |-> FALSE, map |-> << >>]
        ELSE [ret |-> TRUE,
              map |-> [i \in 1..channels |->
                          CHOOSE j \in 1..channels : to[j] = from[i]]]

\* gst_audio_buffer_reorder_channels: the bytes of the buffer afterwards.
\* Nothing is moved when the format has no sample width, the size is not a
\* whole number of frames, the two lists are equal or no reorder map exists;
\* otherwise, in every frame, the sample of channel i moves to channel
\* map[i].
gst_audio_buffer_reorder_channels(data, format, channels, from, to) ==
    LET bps == FormatWidth(format) \div 8
        bpf == bps * channels
        size == Len(data)
        same == \A i \in 1..channels : from[i] = to[i]
        m == gst_audio_get_channel_reorder_map(channels, from, to)
    IN  IF \/ bps = 0
           \/ channels <= 0
           \/ size % bpf # 0
           \/ size = 0
           \/ same
           \/ ~m.ret
        THEN data
        ELSE [p \in 1..size |->
                 LET frame == (p - 1) \div bpf
                     offset == (p - 1) % bpf
                     j == (offset \div bps) + 1
                     byte == offset % bps
                     i == CHOOSE c \in 1..channels : m.map[c] = j
                 IN  data[frame * bpf + (i - 1) * bps + byte + 1]]

(***************************************************************************)
(* GstDiscret11AudioParseConfig and the functions that maintain it.        *)
(***************************************************************************)
\* The zero-filled instance memory a configuration occupies before
\* init_config runs.
ZeroConfig ==
    [ready |-> FALSE, format |-> "PCM", pcm_format |-> "UNKNOWN", bpf |-> 0,
     sample_rate |-> 0, num_channels |-> 0, interleaved |-> FALSE,
     channel_positions |-> [i \in 1..MaxChannels |-> 0],
     reordered_channel_positions |-> [i \in 1..MaxChannels |-> 0],
     needs_channel_reordering |-> FALSE]

\* A set_config_channels that reports success whatever the mask is.
set_config_channels_always_succeeds(config, num_channels, channel_mask, set_positions) ==
    IF num_channels <= 0
    THEN [cfg |-> config, ret |-> FALSE, abort |-> TRUE]
    ELSE LET c1 == [config EXCEPT !.num_channels = num_channels,
                                  !.needs_channel_reordering = FALSE]
             mask == IF channel_mask = {}
                     THEN gst_audio_channel_get_fallback_mask(num_channels)
                     ELSE channel_mask
             r == gst_audio_channel_positions_from_mask(
                      num_channels, mask, c1.channel_positions)
         IN  IF set_positions
             THEN [cfg |-> [c1 EXCEPT !.channel_positions = r.position],
                   ret |-> TRUE, abort |-> FALSE]
             ELSE [cfg |-> c1, ret |-> TRUE, abort |-> FALSE]

\* A set_config_channels that leaves needs_channel_reordering as it was.
set_config_channels_keeps_flag(config, num_channels, channel_mask, set_positions) ==
    IF num_channels <= 0
    THEN [cfg |-> config, ret |-> FALSE, abort |-> TRUE]
    ELSE LET c1 == [config EXCEPT !.num_channels = num_channels]
             mask == IF channel_mask = {}
                     THEN gst_audio_channel_get_fallback_mask(num_channels)
                     ELSE channel_mask
             r == gst_audio_channel_positions_from_mask(
                      num_channels, mask, c1.channel_positions)
         IN  IF set_positions
             THEN [cfg |-> [c1 EXCEPT !.channel_positions = r.position],
                   ret |-> r.ret, abort |-> FALSE]
             ELSE [cfg |-> c1, ret |-> TRUE, abort |-> FALSE]

\* set_config_channels: [cfg, ret, abort].  g_assert (num_channels > 0).
set_config_channels(config, num_channels, channel_mask, set_positions) ==
    IF num_channels <= 0
    THEN [cfg |-> config, ret |-> FALSE, abort |-> TRUE]
    ELSE LET c1 == [config EXCEPT !.num_channels = num_channels,
                                  !.needs_channel_reordering = FALSE]
             mask == IF channel_mask = {}
                     THEN gst_audio_channel_get_fallback_mask(num_channels)
                     ELSE channel_mask
             r == gst_audio_channel_positions_from_mask(
                      num_channels, mask, c1.channel_positions)
         IN  IF set_positions
             THEN [cfg |-> [c1 EXCEPT !.channel_positions = r.position],
                   ret |-> r.ret, abort |-> FALSE]
             ELSE [cfg |-> c1, ret |-> TRUE, abort |-> FALSE]

\* Faulty variant of update_channel_reordering_flag: the positions are
\* brought into the valid order in place, in channel_positions itself.
update_channel_reordering_flag_in_place(config) ==
    IF gst_audio_check_valid_channel_positions(config.channel_positions,
                                               config.num_channels, TRUE)
    THEN [cfg |-> [config EXCEPT !.needs_channel_reordering = FALSE],
          ret |-> TRUE]
    ELSE LET ordered == gst_audio_channel_positions_to_valid_order(
                            config.channel_positions, config.num_channels)
         IN  [cfg |-> [config EXCEPT !.needs_channel_reordering = TRUE,
                                     !.channel_positions = ordered.position,
                                     !.reordered_channel_positions =
                                         ordered.position],
              ret |-> ordered.ret]

\* Faulty variant of update_channel_reordering_flag: the copy of the
\* positions is not brought into the valid order.
update_channel_reordering_flag_unsorted(config) ==
    IF gst_audio_check_valid_channel_positions(config.channel_positions,
                                               config.num_channels, TRUE)
    THEN [cfg |-> [config EXCEPT !.needs_channel_reordering = FALSE],
          ret |-> TRUE]
    ELSE LET copied == [i \in 1..MaxChannels |->
                           IF i <= config.num_channels
                           THEN config.channel_positions[i]
                           ELSE config.reordered_channel_positions[i]]
         IN  [cfg |-> [config EXCEPT !.needs_channel_reordering = TRUE,
                                     !.reordered_channel_positions = copied],
              ret |-> gst_audio_check_valid_channel_positions(
                          copied, config.num_channels, FALSE)]

\* update_channel_reordering_flag: [cfg, ret].
update_channel_reordering_flag(config) ==
    IF gst_audio_check_valid_channel_positions(config.channel_positions,
                                               config.num_channels, TRUE)
    THEN [cfg |-> [config EXCEPT !.needs_channel_reordering = FALSE],
          ret |-> TRUE]
    ELSE LET copied == [i \in 1..MaxChannels |->
                           IF i <= config.num_channels
                           THEN config.channel_positions[i]
                           ELSE config.reordered_channel_positions[i]]
             ordered == gst_audio_channel_positions_to_valid_order(
                            copied, config.num_channels)
         IN  [cfg |-> [config EXCEPT !.needs_channel_reordering = TRUE,
                                     !.reordered_channel_positions =
                                         ordered.position],
              ret |-> ordered.ret]

\* width * num_channels / 8 as the C expression computes it: the product is
\* a guint product, so only its low 32 bits are kept, and those are divided
\* by 8.  num_channels is split into 16-bit halves so that no intermediate
\* value leaves the range of the integers: hi_prod and lo_prod are the
\* partial products, the low 16 bits of hi_prod (with the carry of lo_prod)
\* are bits 16..31 of the product and the low 16 bits of lo_prod are bits
\* 0..15.
guint_product_div8(width, num_channels) ==
    LET lo_prod == width * (num_channels % 65536)
        hi_prod == width * (num_channels \div 65536) + lo_prod \div 65536
    IN  (hi_prod % 65536) * 8192 + (lo_prod % 65536) \div 8

\* update_config_bpf
update_config_bpf(config) ==
    IF config.format = "PCM"
    THEN [config EXCEPT !.bpf =
             guint_product_div8(FormatWidth(config.pcm_format),
                                config.num_channels)]
    ELSE [config EXCEPT !.bpf = 1 * config.num_channels]

\* init_config, applied to the zero-filled struct.
init_config(config) ==
    set_config_channels(
        [config EXCEPT !.ready = FALSE, !.format = DEFAULT_FORMAT,
                       !.pcm_format = DEFAULT_PCM_FORMAT, !.bpf = 0,
                       !.sample_rate = DEFAULT_SAMPLE_RATE,
                       !.num_channels = DEFAULT_NUM_CHANNELS,
                       !.interleaved = DEFAULT_INTERLEAVED,
                       !.needs_channel_reordering = FALSE],
        DEFAULT_NUM_CHANNELS, {}, TRUE).cfg

\* A caps_to_config that does not rename audio/x-unaligned-raw structures.
caps_to_config_without_rename(caps, config) ==
    LET c0 == caps
    IN  IF c0.name = "audio/x-raw"
        THEN LET r == gst_audio_info_from_caps(c0)
             IN  IF ~r.ret
                 THEN [cfg |-> config, ret |-> FALSE, abort |-> FALSE]
                 ELSE LET c1 == [config EXCEPT
                                    !.format = "PCM",
                                    !.pcm_format = r.info.format,
                                    !.bpf = r.info.bpf,
                                    !.sample_rate = r.info.rate,
                                    !.interleaved =
                                        (r.info.layout = "interleaved")]
                          s == set_config_channels(c1, r.info.channels, {}, FALSE)
                          pos == [i \in 1..MaxChannels |->
                                     IF i <= r.info.channels
                                     THEN r.info.position[i]
                                     ELSE s.cfg.channel_positions[i]]
                      IN  IF s.abort
                          THEN [cfg |-> s.cfg, ret |-> FALSE, abort |-> TRUE]
                          ELSE [cfg |-> [s.cfg EXCEPT !.channel_positions = pos,
                                                      !.ready = TRUE],
                                ret |-> TRUE, abort |-> FALSE]
        ELSE IF c0.name \in {"audio/x-alaw", "audio/x-mulaw"}
        THEN LET c1 == [config EXCEPT !.format =
                           IF c0.name = "audio/x-alaw" THEN "ALAW" ELSE "MULAW"]
             IN  IF ~c0.has_rate
                 THEN [cfg |-> c1, ret |-> FALSE, abort |-> FALSE]
                 ELSE LET c2 == [c1 EXCEPT !.sample_rate = c0.rate]
                      IN  IF ~c0.has_channels
                          THEN [cfg |-> c2, ret |-> FALSE, abort |-> FALSE]
                          ELSE LET mask == IF ~c0.has_mask
                                           THEN gst_audio_channel_get_fallback_mask(
                                                    c0.channels)
                                           ELSE c0.mask
                                   s == set_config_channels(c2, c0.channels,
                                                            mask, TRUE)
                               IN  IF s.abort
                                   THEN [cfg |-> s.cfg, ret |-> FALSE,
                                         abort |-> TRUE]
                                   ELSE IF ~s.ret
                                   THEN [cfg |-> s.cfg, ret |-> FALSE,
                                         abort |-> FALSE]
                                   ELSE [cfg |-> [s.cfg EXCEPT
                                                     !.bpf = 1 * c0.channels,
                                                     !.ready = TRUE],
                                         ret |-> TRUE, abort |-> FALSE]
        ELSE [cfg |-> config, ret |-> FALSE, abort |-> FALSE]

\* caps_to_config: [cfg, ret, abort].  An audio/x-unaligned-raw structure is
\* renamed audio/x-raw first.  ready is set on success only and is left as
\* it was on failure; fields written before a failing step stay written.
caps_to_config(caps, config) ==
    LET c0 == IF caps.name = "audio/x-unaligned-raw"
              THEN [caps EXCEPT !.name = "audio/x-raw"] ELSE caps
    IN  IF c0.name = "audio/x-raw"
        THEN LET r == gst_audio_info_from_caps(c0)
             IN  IF ~r.ret
                 THEN [cfg |-> config, ret |-> FALSE, abort |-> FALSE]
                 ELSE LET c1 == [config EXCEPT
                                    !.format = "PCM",
                                    !.pcm_format = r.info.format,
                                    !.bpf = r.info.bpf,
                                    !.sample_rate = r.info.rate,
                                    !.interleaved =
                                        (r.info.layout = "interleaved")]
                          s == set_config_channels(c1, r.info.channels, {}, FALSE)
                          pos == [i \in 1..MaxChannels |->
                                     IF i <= r.info.channels
                                     THEN r.info.position[i]
                                     ELSE s.cfg.channel_positions[i]]
                      IN  IF s.abort
                          THEN [cfg |-> s.cfg, ret |-> FALSE, abort |-> TRUE]
                          ELSE [cfg |-> [s.cfg EXCEPT !.channel_positions = pos,
                                                      !.ready = TRUE],
                                ret |-> TRUE, abort |-> FALSE]
        ELSE IF c0.name \in {"audio/x-alaw", "audio/x-mulaw"}
        THEN LET c1 == [config EXCEPT !.format =
                           IF c0.name = "audio/x-alaw" THEN "ALAW" ELSE "MULAW"]
             IN  IF ~c0.has_rate
                 THEN [cfg |-> c1, ret |-> FALSE, abort |-> FALSE]
                 ELSE LET c2 == [c1 EXCEPT !.sample_rate = c0.rate]
                      IN  IF ~c0.has_channels
                          THEN [cfg |-> c2, ret |-> FALSE, abort |-> FALSE]
                          ELSE LET mask == IF ~c0.has_mask
                                           THEN gst_audio_channel_get_fallback_mask(
                                                    c0.channels)
                                           ELSE c0.mask
                                   s == set_config_channels(c2, c0.channels,
                                                            mask, TRUE)
                               IN  IF s.abort
                                   THEN [cfg |-> s.cfg, ret |-> FALSE,
                                         abort |-> TRUE]
                                   ELSE IF ~s.ret
                                   THEN [cfg |-> s.cfg, ret |-> FALSE,
                                         abort |-> FALSE]
                                   ELSE [cfg |-> [s.cfg EXCEPT
                                                     !.bpf = 1 * c0.channels,
                                                     !.ready = TRUE],
                                         ret |-> TRUE, abort |-> FALSE]
        ELSE [cfg |-> config, ret |-> FALSE, abort |-> FALSE]

\* Faulty variant of config_to_caps: the PCM branch writes the layout of the
\* configuration into the audio info.
config_to_caps_with_layout(config) ==
    IF config.bpf = 0
    THEN [ret |-> FALSE, caps |-> NullCaps, positions |-> << >>]
    ELSE LET channel_positions ==
                 IF config.needs_channel_reordering
                 THEN config.reordered_channel_positions
                 ELSE config.channel_positions
         IN  IF config.format = "PCM"
             THEN LET info == [gst_audio_info_set_format(
                                   config.pcm_format, config.sample_rate,
                                   config.num_channels, channel_positions)
                               EXCEPT !.layout =
                                   IF config.interleaved THEN "interleaved"
                                   ELSE "non-interleaved"]
                  IN  [ret |-> TRUE, caps |-> gst_audio_info_to_caps(info),
                       positions |-> info.position]
             ELSE LET m == gst_audio_channel_positions_to_mask(
                               channel_positions, config.num_channels, TRUE)
                  IN  IF ~m.ret
                      THEN [ret |-> FALSE, caps |-> NullCaps, positions |-> << >>]
                      ELSE [ret |-> TRUE,
                            caps |-> MakeCaps(IF config.format = "ALAW"
                                              THEN "audio/x-alaw"
                                              ELSE "audio/x-mulaw",
                                              Absent, Absent,
                                              TRUE, config.sample_rate,
                                              TRUE, config.num_channels,
                                              TRUE, m.mask),
                            positions |-> FirstEntries(channel_positions,
                                                       config.num_channels)]

\* Faulty variant of config_to_caps: the A-law / mu-law branch asks for the
\* channel mask without forcing the canonical order.
config_to_caps_unordered(config) ==
    IF config.bpf = 0
    THEN [ret |-> FALSE, caps |-> NullCaps, positions |-> << >>]
    ELSE LET channel_positions ==
                 IF config.needs_channel_reordering
                 THEN config.reordered_channel_positions
                 ELSE config.channel_positions
         IN  IF config.format = "PCM"
             THEN LET info == gst_audio_info_set_format(
                                  config.pcm_format, config.sample_rate,
                                  config.num_channels, channel_positions)
                  IN  [ret |-> TRUE, caps |-> gst_audio_info_to_caps(info),
                       positions |-> info.position]
             ELSE LET m == gst_audio_channel_positions_to_mask(
                               channel_positions, config.num_channels, FALSE)
                  IN  IF ~m.ret
                      THEN [ret |-> FALSE, caps |-> NullCaps, positions |-> << >>]
                      ELSE [ret |-> TRUE,
                            caps |-> MakeCaps(IF config.format = "ALAW"
                                              THEN "audio/x-alaw"
                                              ELSE "audio/x-mulaw",
                                              Absent, Absent,
                                              TRUE, config.sample_rate,
                                              TRUE, config.num_channels,
                                              TRUE, m.mask),
                            positions |-> FirstEntries(channel_positions,
                                                       config.num_channels)]

\* A config_to_caps that does not look at bpf.
config_to_caps_without_bpf_check(config) ==
    LET channel_positions ==
            IF config.needs_channel_reordering
            THEN config.reordered_channel_positions
            ELSE config.channel_positions
    IN  IF config.format = "PCM"
        THEN LET info == gst_audio_info_set_format(
                             config.pcm_format, config.sample_rate,
                             config.num_channels, channel_positions)
             IN  [ret |-> TRUE, caps |-> gst_audio_info_to_caps(info),
                  positions |-> info.position]
        ELSE LET m == gst_audio_channel_positions_to_mask(
                          channel_positions, config.num_channels, TRUE)
             IN  IF ~m.ret
                 THEN [ret |-> FALSE, caps |-> NullCaps, positions |-> << >>]
                 ELSE [ret |-> TRUE,
                       caps |-> MakeCaps(IF config.format = "ALAW"
                                         THEN "audio/x-alaw"
                                         ELSE "audio/x-mulaw",
                                         Absent, Absent,
                                         TRUE, config.sample_rate,
                                         TRUE, config.num_channels,
                                         TRUE, m.mask),
                       positions |-> FirstEntries(channel_positions,
                                                  config.num_channels)]

\* config_to_caps: [ret, caps, positions].  caps is NullCaps for NULL;
\* positions is the layout the produced caps describe (the GstAudioInfo
\* positions for PCM, the list turned into the channel mask otherwise).
config_to_caps(config) ==
    IF config.bpf = 0
    THEN [ret |-> FALSE, caps |-> NullCaps, positions |-> << >>]
    ELSE LET channel_positions ==
                 IF config.needs_channel_reordering
                 THEN config.reordered_channel_positions
                 ELSE config.channel_positions
         IN  IF config.format = "PCM"
             THEN LET info == gst_audio_info_set_format(
                                  config.pcm_format, config.sample_rate,
                                  config.num_channels, channel_positions)
                  IN  [ret |-> TRUE, caps |-> gst_audio_info_to_caps(info),
                       positions |-> info.position]
             ELSE LET m == gst_audio_channel_positions_to_mask(
                               channel_positions, config.num_channels, TRUE)
                  IN  IF ~m.ret
                      THEN [ret |-> FALSE, caps |-> NullCaps, positions |-> << >>]
                      ELSE [ret |-> TRUE,
                            caps |-> MakeCaps(IF config.format = "ALAW"
                                              THEN "audio/x-alaw"
                                              ELSE "audio/x-mulaw",
                                              Absent, Absent,
                                              TRUE, config.sample_rate,
                                              TRUE, config.num_channels,
                                              TRUE, m.mask),
                            positions |-> FirstEntries(channel_positions,
                                                       config.num_channels)]

(***************************************************************************)
(* Inputs of the environment (property values, caps).                      *)
(***************************************************************************)
\* Values given to the pcm-format property: any GstAudioFormat, UNKNOWN
\* included.
PropPcmFormats == {"UNKNOWN", "S8", "S16LE"}

\* Values given to the sample-rate property.
Rates == {48000, DEFAULT_SAMPLE_RATE}

\* Position lists of length n given in a channel-positions array: the
\* canonical layout FRONT_LEFT, FRONT_RIGHT, ... and its reverse, a list
\* that repeats FRONT_LEFT, a list holding the INVALID code, and lists with
\* NONE first and with NONE last.
PositionLists(n) ==
    {[i \in 1..n |-> i - 1],
     [i \in 1..n |-> n - i],
     [i \in 1..n |-> GST_AUDIO_CHANNEL_POSITION_FRONT_LEFT],
     [i \in 1..n |-> IF i = 1 THEN GST_AUDIO_CHANNEL_POSITION_INVALID ELSE i - 1],
     [i \in 1..n |-> IF i = 1 THEN GST_AUDIO_CHANNEL_POSITION_NONE ELSE i - 2],
     [i \in 1..n |-> IF i = n THEN GST_AUDIO_CHANNEL_POSITION_NONE ELSE i - 1]}

\* A GValueArray given to the channel-positions property: NULL, an empty
\* array, or an array of 1 .. MaxChannels position codes.
ValArrays ==
    {[null |-> TRUE, values |-> << >>], [null |-> FALSE, values |-> << >>]}
    \cup {[null |-> FALSE, values |-> v] :
             v \in UNION {PositionLists(n) : n \in 1..MaxChannels}}

\* Caps handed to set_config_from_caps.  Raw PCM caps: stereo interleaved
\* under both media types, mono non-interleaved, one with the mask 0 of an
\* unpositioned layout and one without a format.
RawCaps ==
    {MakeCaps(nm, "S8", "interleaved", TRUE, 8000, TRUE, 2, FALSE, {}) :
        nm \in {"audio/x-raw", "audio/x-unaligned-raw"}}
    \cup {MakeCaps("audio/x-raw", "S8", "non-interleaved", TRUE, 8000,
                   TRUE, 1, FALSE, {}),
          MakeCaps("audio/x-raw", "S8", "interleaved", TRUE, 8000,
                   TRUE, MaxChannels, TRUE, {}),
          MakeCaps("audio/x-raw", Absent, "interleaved", TRUE, 8000,
                   TRUE, 1, FALSE, {})}

\* A-law and mu-law caps: A-law with every channel count from 0 on and no
\* channel mask, mu-law with a mask of a single bit, A-law without a rate
\* and mu-law without a channel count.
LawCaps ==
    {MakeCaps("audio/x-alaw", Absent, Absent, TRUE, 8000, TRUE, n, FALSE, {}) :
        n \in 0..MaxChannels}
    \cup {MakeCaps("audio/x-mulaw", Absent, Absent, TRUE, 8000,
                   TRUE, MaxChannels, TRUE, {1}),
          MakeCaps("audio/x-alaw", Absent, Absent, FALSE, 0,
                   TRUE, 1, FALSE, {}),
          MakeCaps("audio/x-mulaw", Absent, Absent, TRUE, 8000,
                   FALSE, 0, FALSE, {})}

\* Caps of a media type the parser does not take.
OtherCaps ==
    {MakeCaps("video/x-raw", Absent, Absent, FALSE, 0, FALSE, 0, FALSE, {})}

CapsInputs == RawCaps \cup LawCaps \cup OtherCaps

\* An input buffer of `size` bytes, every byte different from the others.
InBuffer(size) == [p \in 1..size |-> p]

\* Number of bytes an input buffer holds after its last complete frame.
TrailingBytes == {0, 1}

(***************************************************************************)
(* State.                                                                  *)
(***************************************************************************)
VARIABLES
    properties_config,  \* GstDiscret11AudioParse.properties_config
    sink_caps_config,   \* GstDiscret11AudioParse.sink_caps_config
    current_config,     \* which of the two current_config points to, or "NULL"
    src_caps_set,       \* GstDiscret11Parse.src_caps_set
    min_frame_size,     \* GstBaseParse minimum frame size
    call,               \* the last call made: [op, config, ret]
    calls,              \* how many calls were made since construction
    aborted,            \* an assertion failed: the process is gone
    config_mutex        \* GstDiscret11Parse.config_mutex: "free" or its holder

vars == << properties_config, sink_caps_config, current_config, src_caps_set,
           min_frame_size, call, calls, aborted, config_mutex >>

\* A call of `op` is made (the element is alive and the environment has
\* calls left), acts on the configuration `config` points to and gives `ret`.
\* The body of a handler neither takes nor releases the config mutex: the
\* lock and unlock around it are steps of their own (mutex_lock,
\* mutex_unlock), which only the specification of the two threads takes.
Called(op, config, ret) ==
    /\ ~aborted
    /\ calls < MaxCalls
    /\ calls' = calls + 1
    /\ call' = [op |-> op, config |-> config, ret |-> ret]
    /\ UNCHANGED config_mutex

\* is_using_sink_caps
is_using_sink_caps == current_config = "sink_caps_config"

\* get_config_ptr: the name of the configuration a GstDiscret11ParseConfig
\* designates.
get_config_ptr(config) ==
    CASE config = "PROPERTIES" -> "properties_config"
      [] config = "SINKCAPS" -> "sink_caps_config"
      [] OTHER -> current_config

Deref(ptr) ==
    IF ptr = "properties_config" THEN properties_config ELSE sink_caps_config

\* get_current_config
get_current_config == IF is_using_sink_caps THEN "SINKCAPS" ELSE "PROPERTIES"

\* is_config_ready
is_config_ready(config) == Deref(get_config_ptr(config)).ready

\* get_config_frame_size
get_config_frame_size(config) == Deref(get_config_ptr(config)).bpf

\* gst_discret11_audio_parse_init: the state after construction.
Init ==
    /\ properties_config =
           update_config_bpf([init_config(ZeroConfig) EXCEPT !.ready = TRUE])
    /\ sink_caps_config = init_config(ZeroConfig)
    /\ current_config = "properties_config"
    /\ src_caps_set = FALSE
    /\ min_frame_size = 1
    /\ call = [op |-> "init", config |-> "properties_config", ret |-> TRUE]
    /\ calls = 0
    /\ aborted = FALSE
    /\ config_mutex = "free"

\* A property tail that also makes the properties config the current one.
PropertyChanged_selects_properties(new_config, with_frame_size) ==
    /\ properties_config' = new_config
    /\ current_config' = "properties_config"
    /\ src_caps_set' = FALSE
    /\ min_frame_size' = IF with_frame_size THEN new_config.bpf
                         ELSE min_frame_size
    /\ UNCHANGED << sink_caps_config, aborted >>

\* A property tail that does not ask which configuration is in use.
PropertyChanged_always_invalidates(new_config, with_frame_size) ==
    /\ properties_config' = new_config
    /\ src_caps_set' = FALSE
    /\ min_frame_size' = IF with_frame_size THEN new_config.bpf
                         ELSE min_frame_size
    /\ UNCHANGED << sink_caps_config, current_config, aborted >>

\* A property tail that marks the changed configuration as not ready.
PropertyChanged_unreadies(new_config, with_frame_size) ==
    /\ properties_config' = [new_config EXCEPT !.ready = FALSE]
    /\ IF ~is_using_sink_caps
       THEN /\ src_caps_set' = FALSE
            /\ min_frame_size' = IF with_frame_size THEN new_config.bpf
                                 ELSE min_frame_size
       ELSE UNCHANGED << src_caps_set, min_frame_size >>
    /\ UNCHANGED << sink_caps_config, current_config, aborted >>

\* The tail every property case shares: when the properties config is the
\* current one, invalidate the source caps and (if with_frame_size) set the
\* minimum frame size to the new bpf.
PropertyChanged(new_config, with_frame_size) ==
    /\ properties_config' = new_config
    /\ IF ~is_using_sink_caps
       THEN /\ src_caps_set' = FALSE
            /\ min_frame_size' = IF with_frame_size THEN new_config.bpf
                                 ELSE min_frame_size
       ELSE UNCHANGED << src_caps_set, min_frame_size >>
    /\ UNCHANGED << sink_caps_config, current_config, aborted >>

\* set_property, PROP_FORMAT
set_property_format(new_format) ==
    /\ Called("set_property", "properties_config", TRUE)
    /\ IF new_format # properties_config.format
       THEN PropertyChanged(
                update_config_bpf([properties_config EXCEPT !.format = new_format]),
                TRUE)
       ELSE UNCHANGED << properties_config, sink_caps_config, current_config,
                         src_caps_set, min_frame_size, aborted >>

\* set_property, PROP_PCM_FORMAT
set_property_pcm_format(new_pcm_format) ==
    /\ Called("set_property", "properties_config", TRUE)
    /\ IF new_pcm_format # properties_config.pcm_format
       THEN PropertyChanged(
                update_config_bpf([properties_config EXCEPT
                                      !.pcm_format = new_pcm_format]),
                TRUE)
       ELSE UNCHANGED << properties_config, sink_caps_config, current_config,
                         src_caps_set, min_frame_size, aborted >>

\* set_property, PROP_SAMPLE_RATE
set_property_sample_rate(new_sample_rate) ==
    /\ Called("set_property", "properties_config", TRUE)
    /\ IF new_sample_rate # properties_config.sample_rate
       THEN PropertyChanged(
                [properties_config EXCEPT !.sample_rate = new_sample_rate],
                FALSE)
       ELSE UNCHANGED << properties_config, sink_caps_config, current_config,
                         src_caps_set, min_frame_size, aborted >>

\* set_property, PROP_NUM_CHANNELS
set_property_num_channels(new_num_channels) ==
    /\ Called("set_property", "properties_config", TRUE)
    /\ IF new_num_channels # properties_config.num_channels
       THEN PropertyChanged(
                update_config_bpf(
                    [set_config_channels(properties_config, new_num_channels,
                                         {}, TRUE).cfg
                     EXCEPT !.num_channels = new_num_channels]),
                TRUE)
       ELSE UNCHANGED << properties_config, sink_caps_config, current_config,
                         src_caps_set, min_frame_size, aborted >>

\* set_property, PROP_INTERLEAVED
set_property_interleaved(new_interleaved) ==
    /\ Called("set_property", "properties_config", TRUE)
    /\ IF new_interleaved # properties_config.interleaved
       THEN PropertyChanged(
                [properties_config EXCEPT !.interleaved = new_interleaved],
                FALSE)
       ELSE UNCHANGED << properties_config, sink_caps_config, current_config,
                         src_caps_set, min_frame_size, aborted >>

\* A PROP_CHANNEL_POSITIONS case that turns down an array whose length is
\* not the current channel count.
store_channel_positions_same_length_only(config, values) ==
    IF Len(values) # config.num_channels
    THEN config
    ELSE update_channel_reordering_flag(
             [config EXCEPT !.channel_positions =
                 [i \in 1..MaxChannels |->
                     IF i <= config.num_channels THEN values[i]
                     ELSE config.channel_positions[i]]]).cfg

\* The configuration PROP_CHANNEL_POSITIONS leaves for a non-empty array:
\* the channel count follows the array length, the values are copied and
\* the reordering flag is recomputed (its result is not looked at).
store_channel_positions(config, values) ==
    LET c1 == IF Len(values) # config.num_channels
              THEN set_config_channels(config, Len(values), {}, FALSE).cfg
              ELSE config
        c2 == [c1 EXCEPT !.channel_positions =
                  [i \in 1..MaxChannels |->
                      IF i <= c1.num_channels THEN values[i]
                      ELSE c1.channel_positions[i]]]
    IN  update_channel_reordering_flag(c2).cfg

\* Faulty variant of the PROP_CHANNEL_POSITIONS case: an empty array is
\* taken like NULL and brings the default positions back.
set_property_channel_positions_empty_as_null(valarray) ==
    /\ Called("set_property", "properties_config", TRUE)
    /\ PropertyChanged(
           update_config_bpf(
               IF valarray.null \/ Len(valarray.values) = 0
               THEN IF properties_config.num_channels > 0
                    THEN set_config_channels(
                             properties_config,
                             properties_config.num_channels, {}, TRUE).cfg
                    ELSE properties_config
               ELSE store_channel_positions(properties_config,
                                            valarray.values)),
           TRUE)

\* set_property, PROP_CHANNEL_POSITIONS
set_property_channel_positions(valarray) ==
    /\ IF ~valarray.null /\ Len(valarray.values) = 0
       THEN /\ Called("set_property", "properties_config", FALSE)
            /\ UNCHANGED << properties_config, sink_caps_config, current_config,
                            src_caps_set, min_frame_size, aborted >>
       ELSE /\ Called("set_property", "properties_config", TRUE)
            /\ PropertyChanged(
                   update_config_bpf(
                       IF valarray.null
                       THEN IF properties_config.num_channels > 0
                            THEN set_config_channels(
                                     properties_config,
                                     properties_config.num_channels, {}, TRUE).cfg
                            ELSE properties_config
                       ELSE store_channel_positions(properties_config,
                                                    valarray.values)),
                   TRUE)

\* Faulty variant of stop: the sink caps config is brought back to the state
\* init gave it.
stop_reinitialises ==
    /\ Called("stop", "sink_caps_config", TRUE)
    /\ sink_caps_config' = init_config(ZeroConfig)
    /\ UNCHANGED << properties_config, current_config, src_caps_set,
                    min_frame_size, aborted >>

\* Faulty variant of stop: it also makes the properties config current.
stop_selects_properties ==
    /\ Called("stop", "sink_caps_config", TRUE)
    /\ sink_caps_config' = [sink_caps_config EXCEPT !.ready = FALSE]
    /\ current_config' = "properties_config"
    /\ UNCHANGED << properties_config, src_caps_set, min_frame_size, aborted >>

\* Faulty variant of stop: it forgets to un-ready the sink caps config.
stop_keeps_ready ==
    /\ Called("stop", "sink_caps_config", TRUE)
    /\ UNCHANGED << properties_config, sink_caps_config, current_config,
                    src_caps_set, min_frame_size, aborted >>

\* gst_discret11_audio_parse_stop.  The parent class's stop it chains up to
\* is outside this file and touches neither configuration nor the pointer.
stop ==
    /\ Called("stop", "sink_caps_config", TRUE)
    /\ sink_caps_config' = [sink_caps_config EXCEPT !.ready = FALSE]
    /\ UNCHANGED << properties_config, current_config, src_caps_set,
                    min_frame_size, aborted >>

\* Faulty variant of set_current_config: the default branch stores NULL
\* instead of asserting.
set_current_config_null(config) ==
    /\ current_config' = IF config \in {"PROPERTIES", "SINKCAPS"}
                         THEN get_config_ptr(config) ELSE "NULL"
    /\ Called("set_current_config", current_config, TRUE)
    /\ UNCHANGED << properties_config, sink_caps_config, src_caps_set,
                    min_frame_size, aborted >>

\* set_current_config; any other identifier reaches g_assert_not_reached.
set_current_config(config) ==
    /\ IF config \in {"PROPERTIES", "SINKCAPS"}
       THEN /\ current_config' = get_config_ptr(config)
            /\ Called("set_current_config", get_config_ptr(config), TRUE)
            /\ UNCHANGED aborted
       ELSE /\ aborted' = TRUE
            /\ Called("set_current_config", current_config, FALSE)
            /\ UNCHANGED current_config
    /\ UNCHANGED << properties_config, sink_caps_config, src_caps_set,
                    min_frame_size >>

\* Faulty variant of set_config_from_caps: a successful conversion also makes
\* the converted configuration the current one.
set_config_from_caps_switches(config, caps) ==
    /\ LET ptr == get_config_ptr(config)
           r == caps_to_config(caps, Deref(ptr))
       IN  /\ Called("set_config_from_caps", ptr, r.ret)
           /\ aborted' = r.abort
           /\ current_config' = IF r.ret THEN ptr ELSE current_config
           /\ IF ptr = "properties_config"
              THEN /\ properties_config' = r.cfg
                   /\ UNCHANGED sink_caps_config
              ELSE /\ sink_caps_config' = r.cfg
                   /\ UNCHANGED properties_config
    /\ UNCHANGED << src_caps_set, min_frame_size >>

\* Faulty variant of set_config_from_caps: a failing conversion un-readies
\* the configuration it was asked to fill.
set_config_from_caps_unreadies(config, caps) ==
    /\ LET ptr == get_config_ptr(config)
           r == caps_to_config(caps, Deref(ptr))
           cfg == IF r.ret THEN r.cfg ELSE [r.cfg EXCEPT !.ready = FALSE]
       IN  /\ Called("set_config_from_caps", ptr, r.ret)
           /\ aborted' = r.abort
           /\ IF ptr = "properties_config"
              THEN /\ properties_config' = cfg
                   /\ UNCHANGED sink_caps_config
              ELSE /\ sink_caps_config' = cfg
                   /\ UNCHANGED properties_config
    /\ UNCHANGED << current_config, src_caps_set, min_frame_size >>

\* Faulty variant of set_config_from_caps: the conversion leaves
\* needs_channel_reordering as the configuration had it.
set_config_from_caps_keeps_flag(config, caps) ==
    /\ LET ptr == get_config_ptr(config)
           r == caps_to_config(caps, Deref(ptr))
           kept == [r.cfg EXCEPT !.needs_channel_reordering =
                       Deref(ptr).needs_channel_reordering]
       IN  /\ Called("set_config_from_caps", ptr, r.ret)
           /\ aborted' = r.abort
           /\ IF ptr = "properties_config"
              THEN /\ properties_config' = kept
                   /\ UNCHANGED sink_caps_config
              ELSE /\ sink_caps_config' = kept
                   /\ UNCHANGED properties_config
    /\ UNCHANGED << current_config, src_caps_set, min_frame_size >>

\* set_config_from_caps
set_config_from_caps(config, caps) ==
    /\ LET ptr == get_config_ptr(config)
           r == caps_to_config(caps, Deref(ptr))
       IN  /\ Called("set_config_from_caps", ptr, r.ret)
           /\ aborted' = r.abort
           /\ IF ptr = "properties_config"
              THEN /\ properties_config' = r.cfg
                   /\ UNCHANGED sink_caps_config
              ELSE /\ sink_caps_config' = r.cfg
                   /\ UNCHANGED properties_config
    /\ UNCHANGED << current_config, src_caps_set, min_frame_size >>

\* a | b on unsigned integers.
RECURSIVE BitOr(_, _)
BitOr(a, b) ==
    IF a = 0 THEN b
    ELSE IF b = 0 THEN a
    ELSE (IF a % 2 = 1 \/ b % 2 = 1 THEN 1 ELSE 0)
             + 2 * BitOr(a \div 2, b \div 2)

\* round_up_pow2 on a guint.  For n = 0 the subtraction wraps to UINT_MAX,
\* the shifts leave every bit set and the final addition wraps to 0.
round_up_pow2(n) ==
    IF n = 0 THEN 0
    ELSE LET n0 == n - 1
             n1 == BitOr(n0, n0 \div 2)
             n2 == BitOr(n1, n1 \div 4)
             n4 == BitOr(n2, n2 \div 16)
             n8 == BitOr(n4, n4 \div 256)
             n16 == BitOr(n8, n8 \div 65536)
         IN  n16 + 1

\* GST_ROUND_UP_8 (num) is ((num + 7) & ~7).
GST_ROUND_UP_8(num) == ((num + 7) \div 8) * 8

\* get_alignment
get_alignment(config) ==
    LET config_ptr == Deref(get_config_ptr(config))
        width0 == FormatWidth(config_ptr.pcm_format) \div 8
        width1 == GST_ROUND_UP_8(width0)
    IN  IF config_ptr.format # "PCM" THEN 1 ELSE round_up_pow2(width1)

\* A process that copies the valid bytes but leaves the channels where they
\* are.
processed_data_copy_only(config, in_data, num_valid_in_bytes) ==
    LET config_ptr == Deref(get_config_ptr(config))
    IN  IF config_ptr.format = "PCM" /\ config_ptr.needs_channel_reordering
        THEN [null |-> FALSE,
              data |-> [p \in 1..num_valid_in_bytes |-> in_data[p]]]
        ELSE [null |-> TRUE, data |-> << >>]

\* A process that reorders every PCM buffer, whatever the flag says.
processed_data_every_pcm(config, in_data, num_valid_in_bytes) ==
    LET config_ptr == Deref(get_config_ptr(config))
    IN  IF config_ptr.format = "PCM"
        THEN [null |-> FALSE,
              data |-> gst_audio_buffer_reorder_channels(
                           [p \in 1..num_valid_in_bytes |-> in_data[p]],
                           config_ptr.pcm_format, config_ptr.num_channels,
                           config_ptr.channel_positions,
                           config_ptr.reordered_channel_positions)]
        ELSE [null |-> TRUE, data |-> << >>]

\* The *processed_data that process hands back: [null, data].  null stands
\* for a NULL pointer (the input buffer is to be used as it is); data holds
\* the bytes of the new buffer otherwise.
processed_data(config, in_data, num_valid_in_bytes) ==
    LET config_ptr == Deref(get_config_ptr(config))
    IN  IF config_ptr.format = "PCM" /\ config_ptr.needs_channel_reordering
        THEN [null |-> FALSE,
              data |-> gst_audio_buffer_reorder_channels(
                           [p \in 1..num_valid_in_bytes |-> in_data[p]],
                           config_ptr.pcm_format, config_ptr.num_channels,
                           config_ptr.channel_positions,
                           config_ptr.reordered_channel_positions)]
        ELSE [null |-> TRUE, data |-> << >>]

\* A process that marks the configuration as reordered once it has acted.
process_clears_flag(config, in_data, total_num_in_bytes, num_valid_in_bytes) ==
    /\ Called("process", get_config_ptr(config), TRUE)
    /\ IF get_config_ptr(config) = "properties_config"
       THEN /\ properties_config' =
                   [properties_config EXCEPT !.needs_channel_reordering = FALSE]
            /\ UNCHANGED sink_caps_config
       ELSE /\ sink_caps_config' =
                   [sink_caps_config EXCEPT !.needs_channel_reordering = FALSE]
            /\ UNCHANGED properties_config
    /\ UNCHANGED << current_config, src_caps_set, min_frame_size, aborted >>

\* process: always returns TRUE, and writes nothing but *processed_data.
process(config, in_data, total_num_in_bytes, num_valid_in_bytes) ==
    /\ Called("process", get_config_ptr(config), TRUE)
    /\ UNCHANGED << properties_config, sink_caps_config, current_config,
                    src_caps_set, min_frame_size, aborted >>

\* GstFormat values a unit query can name.
GstFormats == {"UNDEFINED", "DEFAULT", "BYTES", "TIME", "BUFFERS", "PERCENT"}

\* is_unit_format_supported
is_unit_format_supported(format) == format \in {"BYTES", "DEFAULT"}

\* The mathematical product a * b, written in 16-bit limbs so that no
\* intermediate value leaves the range of the integers: lo is bits 0..15, hi
\* bits 16..31 and carry everything from bit 32 on.
wide_product(a, b) ==
    LET lo_prod == (a % 65536) * b
        hi_prod == (a \div 65536) * b + lo_prod \div 65536
    IN  [carry |-> hi_prod \div 65536,
         hi |-> hi_prod % 65536,
         lo |-> lo_prod % 65536]

\* a * b as a guint product: the low 32 bits of the mathematical product.
guint_product(a, b) ==
    [hi |-> wide_product(a, b).hi, lo |-> wide_product(a, b).lo]

\* get_units_per_second: [n, d, abort], n in 16-bit limbs [hi, lo].  The
\* BYTES numerator is the guint product sample_rate * bpf, widened to gsize
\* after the multiplication.  Any other format than BYTES and DEFAULT
\* reaches g_assert_not_reached.
get_units_per_second(format, config) ==
    LET config_ptr == Deref(get_config_ptr(config))
    IN  CASE format = "BYTES" ->
                 [n |-> guint_product(config_ptr.sample_rate, config_ptr.bpf),
                  d |-> 1, abort |-> FALSE]
          [] format = "DEFAULT" ->
                 [n |-> [hi |-> config_ptr.sample_rate \div 65536,
                         lo |-> config_ptr.sample_rate % 65536],
                  d |-> 1, abort |-> FALSE]
          [] OTHER -> [n |-> [hi |-> 0, lo |-> 0], d |-> 0, abort |-> TRUE]

\* get_caps_from_config
get_caps_from_config(config) ==
    /\ Called("get_caps_from_config", get_config_ptr(config),
              config_to_caps(Deref(get_config_ptr(config))).ret)
    /\ UNCHANGED << properties_config, sink_caps_config, current_config,
                    src_caps_set, min_frame_size, aborted >>

\* The engine publishes the current configuration's caps on the source pad
\* once that configuration is ready and converts to caps.
engine_push_src_caps ==
    /\ ~src_caps_set
    /\ is_config_ready("CURRENT")
    /\ LET r == config_to_caps(Deref(current_config))
       IN  r.ret /\ r.caps # NullCaps
    /\ src_caps_set' = TRUE
    /\ min_frame_size' = get_config_frame_size("CURRENT")
    /\ Called("engine_push_src_caps", current_config, TRUE)
    /\ UNCHANGED << properties_config, sink_caps_config, current_config,
                    aborted >>

Next ==
    \/ \E f \in Formats : set_property_format(f)
    \/ \E f \in PropPcmFormats : set_property_pcm_format(f)
    \/ \E r \in Rates : set_property_sample_rate(r)
    \/ \E n \in 1..MaxChannels : set_property_num_channels(n)
    \/ \E b \in BOOLEAN : set_property_interleaved(b)
    \/ \E v \in ValArrays : set_property_channel_positions(v)
    \/ stop
    \/ \E c \in ConfigIds : set_current_config(c)
    \/ \E c \in ConfigIds, caps \in CapsInputs : set_config_from_caps(c, caps)
    \/ \E c \in ConfigIds : get_caps_from_config(c)
    \/ \E c \in ConfigIds, frames \in 1..MaxFrames, trailing \in TrailingBytes :
           LET valid == frames * get_config_frame_size(c)
           IN  process(c, InBuffer(valid + trailing), valid + trailing, valid)
    \/ engine_push_src_caps

Spec == Init /\ [][Next]_vars

\* An element that is configured through its properties only: no caps are
\* negotiated and no data flows.
NextProps ==
    \/ \E f \in Formats : set_property_format(f)
    \/ \E f \in PropPcmFormats : set_property_pcm_format(f)
    \/ \E r \in Rates : set_property_sample_rate(r)
    \/ \E n \in 1..MaxChannels : set_property_num_channels(n)
    \/ \E b \in BOOLEAN : set_property_interleaved(b)
    \/ \E v \in ValArrays : set_property_channel_positions(v)

SpecProps == Init /\ [][NextProps]_vars

\* The two threads that use an element: the application thread that sets
\* properties, and the streaming thread in which the engine calls the
\* vfuncs and GstBaseParse calls stop.
Threads == {"property", "streaming"}

\* g_mutex_lock (&config_mutex): GST_DISCRET11_PARSE_CONFIG_MUTEX_LOCK at the
\* head of a property case, or the engine before it calls a vfunc.
mutex_lock(thread) ==
    /\ ~aborted
    /\ config_mutex = "free"
    /\ config_mutex' = thread
    /\ UNCHANGED << properties_config, sink_caps_config, current_config,
                    src_caps_set, min_frame_size, call, calls, aborted >>

\* g_mutex_unlock (&config_mutex)
mutex_unlock(thread) ==
    /\ config_mutex = thread
    /\ config_mutex' = "free"
    /\ UNCHANGED << properties_config, sink_caps_config, current_config,
                    src_caps_set, min_frame_size, call, calls, aborted >>

\* The thread that runs a handler.
ThreadOf(op) == IF op = "set_property" THEN "property" ELSE "streaming"

\* The element used by both threads at once.  A property case runs between
\* the lock and unlock of set_property; a vfunc runs while the engine holds
\* the mutex for the streaming thread; stop, a GstBaseParse vfunc, is entered
\* by the streaming thread without the mutex and takes none itself.
NextThreads ==
    \/ \E thread \in Threads : mutex_lock(thread)
    \/ \E thread \in Threads : mutex_unlock(thread)
    \/ config_mutex = "property" /\ \E f \in Formats : set_property_format(f)
    \/ config_mutex = "property"
           /\ \E f \in PropPcmFormats : set_property_pcm_format(f)
    \/ config_mutex = "property" /\ \E r \in Rates : set_property_sample_rate(r)
    \/ config_mutex = "property"
           /\ \E n \in 1..MaxChannels : set_property_num_channels(n)
    \/ config_mutex = "property"
           /\ \E b \in BOOLEAN : set_property_interleaved(b)
    \/ config_mutex = "property"
           /\ \E v \in ValArrays : set_property_channel_positions(v)
    \/ config_mutex # "streaming" /\ stop
    \/ config_mutex = "streaming"
           /\ \E c \in ConfigIds : set_current_config(c)
    \/ config_mutex = "streaming"
           /\ \E c \in ConfigIds, caps \in CapsInputs :
                  set_config_from_caps(c, caps)
    \/ config_mutex = "streaming"
           /\ \E c \in ConfigIds : get_caps_from_config(c)

SpecThreads == Init /\ [][NextThreads]_vars

(***************************************************************************)
(* Properties.                                                             *)
(***************************************************************************)
Configs == {properties_config, sink_caps_config}

\* The bpf update_config_bpf derives from a configuration's format,
\* pcm_format and num_channels.
DerivedBpf(config) == update_config_bpf(config).bpf

\* C1, as stated: in every reachable state get_current_config returns
\* SINKCAPS if and only if sink_caps_config.ready is true, and PROPERTIES
\* otherwise.
C1_current_iff_sink_ready ==
    (get_current_config = "SINKCAPS") <=> sink_caps_config.ready

\* C1, amended: the answer of get_current_config follows the current_config
\* pointer alone.  It changes only in a set_current_config call, to the
\* configuration that call names; property sets, set_config_from_caps
\* (successful or not) and stop never change it, whatever they do to
\* sink_caps_config.ready.
C1_current_follows_set_current_config ==
    [][get_current_config' # get_current_config
          => /\ call'.op = "set_current_config"
             /\ call'.ret
             /\ get_current_config' = IF call'.config = "sink_caps_config"
                                      THEN "SINKCAPS" ELSE "PROPERTIES"]_vars

\* The sink caps config was made current while it is not ready.
C1_witness ==
    /\ call.op = "set_current_config"
    /\ get_current_config = "SINKCAPS"
    /\ ~sink_caps_config.ready

\* C2, as stated: a stop made while the sink caps config is the current one
\* leaves sink_caps_config.ready false and get_current_config answering
\* PROPERTIES.
C2_stop_returns_to_properties ==
    [][(call'.op = "stop" /\ get_current_config = "SINKCAPS")
          => /\ ~sink_caps_config'.ready
             /\ get_current_config' = "PROPERTIES"]_vars

\* C2, amended: a stop made while the sink caps config is the current one
\* leaves sink_caps_config.ready false and the current_config pointer where
\* it was: get_current_config still answers SINKCAPS, and is_config_ready
\* of the current configuration is false.
C2_stop_unreadies_current_sink_config ==
    [][(call'.op = "stop" /\ get_current_config = "SINKCAPS")
          => /\ ~sink_caps_config'.ready
             /\ get_current_config' = "SINKCAPS"
             /\ ~is_config_ready("CURRENT")']_vars

\* A stop was made while the sink caps config, filled by an earlier
\* successful conversion, was the current one.
C2_witness ==
    /\ call.op = "stop"
    /\ get_current_config = "SINKCAPS"
    /\ sink_caps_config.bpf > 0
    /\ ~sink_caps_config.ready

\* C3: whenever caps_to_config returns failure, the configuration it was
\* called on is identical in every field to its state before the call or
\* has ready = false.
C3_failure_leaves_config_unchanged_or_unready ==
    [][(call'.op = "set_config_from_caps" /\ ~call'.ret /\ ~aborted')
          => /\ call'.config = "properties_config"
                   => \/ properties_config' = properties_config
                      \/ ~properties_config'.ready
             /\ call'.config = "sink_caps_config"
                   => \/ sink_caps_config' = sink_caps_config
                      \/ ~sink_caps_config'.ready]_vars

\* C4: for each of the two configurations, in every state of a live
\* element, ready implies bpf > 0.
C4_ready_implies_bpf_positive ==
    ~aborted => \A config \in Configs : config.ready => config.bpf > 0

\* C5: in every state of a live element, whenever a configuration is ready
\* its stored bpf equals the value derived from its format, pcm_format and
\* num_channels.
C5_ready_bpf_is_derived_bpf ==
    ~aborted =>
        \A config \in Configs : config.ready => config.bpf = DerivedBpf(config)

\* C6: properties_config.ready is true after construction and in every
\* reachable state.
C6_properties_config_always_ready == properties_config.ready

\* A conversion from caps failed on the properties config, after writing
\* some of its fields.
C6_witness ==
    /\ call.op = "set_config_from_caps"
    /\ call.config = "properties_config"
    /\ ~call.ret
    /\ properties_config.format # "PCM"
    /\ properties_config.ready

\* C7: sink_caps_config.ready is false after construction, goes from false
\* to true only in a set_config_from_caps call on the sink caps config that
\* returns success, and is false after every stop.
C7_sink_ready_only_by_successful_caps ==
    /\ ~sink_caps_config.ready
    /\ [][/\ (~sink_caps_config.ready /\ sink_caps_config'.ready)
                => /\ call'.op = "set_config_from_caps"
                   /\ call'.config = "sink_caps_config"
                   /\ call'.ret
          /\ call'.op = "stop" => ~sink_caps_config'.ready]_vars

\* A successful conversion from caps made the sink caps config ready.
C7_witness ==
    /\ call.op = "set_config_from_caps"
    /\ call.config = "sink_caps_config"
    /\ call.ret
    /\ sink_caps_config.ready

\* C8: current_config is never NULL: it designates the properties config
\* after construction and one of the two configurations in every reachable
\* state.
C8_current_config_never_null ==
    /\ current_config \in {"properties_config", "sink_caps_config"}
    /\ call.op = "init" => current_config = "properties_config"

\* set_current_config moved the pointer to a ready sink caps config.
C8_witness ==
    /\ call.op = "set_current_config"
    /\ call.ret
    /\ current_config = "sink_caps_config"
    /\ sink_caps_config.ready

\* C9: whenever config_to_caps succeeds on a configuration and produces
\* caps, the position list it publishes is valid in the canonical order,
\* and the channel mask the caps carry is the mask of that list.
C9_published_layout_is_canonical ==
    \A config \in Configs :
        LET r == config_to_caps(config)
        IN  (r.ret /\ r.caps # NullCaps)
                => /\ gst_audio_check_valid_channel_positions(
                          r.positions, config.num_channels, TRUE)
                   /\ r.caps.has_mask
                         => r.caps.mask =
                                gst_audio_channel_positions_to_mask(
                                    r.positions, config.num_channels,
                                    TRUE).mask

\* get_caps_from_config succeeded on an A-law / mu-law properties config
\* whose channel positions were given out of order.
C9_witness ==
    /\ call.op = "get_caps_from_config"
    /\ call.config = "properties_config"
    /\ call.ret
    /\ properties_config.format # "PCM"
    /\ properties_config.needs_channel_reordering

\* C10: when the position list stored by a channel-positions property set
\* is not a valid set of positions, update_channel_reordering_flag returns
\* FALSE and is_config_ready reports false for the properties config.
C10_invalid_positions_make_config_unready ==
    (/\ ~aborted
     /\ call.op = "set_property"
     /\ call.ret
     /\ ~gst_audio_check_valid_channel_positions(
            properties_config.channel_positions,
            properties_config.num_channels, FALSE))
        => /\ ~update_channel_reordering_flag(properties_config).ret
           /\ ~is_config_ready("PROPERTIES")

\* The position lists a channel-positions array can carry.
PositionValues == UNION {PositionLists(n) : n \in 1..MaxChannels}

\* seq holds, in ascending order, exactly the elements of the set S.
IsAscendingListOf(seq, S) ==
    /\ {seq[i] : i \in 1..Len(seq)} = S
    /\ Len(seq) = Cardinality(S)
    /\ \A i, j \in 1..Len(seq) : i < j => seq[i] < seq[j]

\* C11: setting channel-positions to a list whose position set is valid
\* leaves num_channels at the list's length and channel_positions holding
\* the list as supplied; needs_channel_reordering is false if the list is in
\* canonical order, and otherwise it is true and the first num_channels
\* entries of reordered_channel_positions are the same positions in
\* canonical (ascending) order.
C11_valid_positions_are_reordered ==
    \A values \in PositionValues :
        LET n == Len(values)
            after == store_channel_positions(properties_config, values)
        IN  gst_audio_check_valid_channel_positions(values, n, FALSE)
                => /\ after.num_channels = n
                   /\ FirstEntries(after.channel_positions, n) = values
                   /\ after.needs_channel_reordering
                          = ~gst_audio_check_valid_channel_positions(
                                 values, n, TRUE)
                   /\ after.needs_channel_reordering
                          => IsAscendingListOf(
                                 FirstEntries(after.reordered_channel_positions, n),
                                 {values[i] : i \in 1..n})

\* A channel-positions set stored FRONT_RIGHT, FRONT_LEFT and gave the
\* reordered list FRONT_LEFT, FRONT_RIGHT.
C11_witness ==
    /\ call.op = "set_property"
    /\ properties_config.num_channels = 2
    /\ FirstEntries(properties_config.channel_positions, 2)
           = << GST_AUDIO_CHANNEL_POSITION_FRONT_RIGHT,
                GST_AUDIO_CHANNEL_POSITION_FRONT_LEFT >>
    /\ properties_config.needs_channel_reordering
    /\ FirstEntries(properties_config.reordered_channel_positions, 2)
           = << GST_AUDIO_CHANNEL_POSITION_FRONT_LEFT,
                GST_AUDIO_CHANNEL_POSITION_FRONT_RIGHT >>

\* C12: for each configuration, in every state of a live element,
\* needs_channel_reordering is true if and only if the first num_channels
\* entries of channel_positions are not in canonical order.
C12_needs_reordering_iff_not_canonical ==
    ~aborted =>
        \A config \in Configs :
            config.needs_channel_reordering
                <=> ~gst_audio_check_valid_channel_positions(
                        config.channel_positions, config.num_channels, TRUE)

\* C13: process on a PCM configuration whose needs_channel_reordering is
\* true returns a new buffer of exactly num_valid_in_bytes bytes in which,
\* frame by frame, the sample that was at the place of a position in
\* channel_positions stands at the place of that position in
\* reordered_channel_positions.
C13_process_reorders_valid_bytes ==
    ~aborted =>
        \A c \in ConfigIds, frames \in 1..MaxFrames, trailing \in TrailingBytes :
            LET config == Deref(get_config_ptr(c))
                n == config.num_channels
                bps == FormatWidth(config.pcm_format) \div 8
                valid == frames * config.bpf
                in_data == InBuffer(valid + trailing)
                out == processed_data(c, in_data, valid)
            IN  (config.format = "PCM" /\ config.needs_channel_reordering)
                    => /\ ~out.null
                       /\ Len(out.data) = valid
                       /\ \A frame \in 0..(frames - 1), i \in 1..n :
                              \E j \in 1..n :
                                  /\ config.reordered_channel_positions[j]
                                         = config.channel_positions[i]
                                  /\ \A byte \in 1..bps :
                                         out.data[frame * config.bpf
                                                  + (j - 1) * bps + byte]
                                             = in_data[frame * config.bpf
                                                       + (i - 1) * bps + byte]

\* process was called on a 16-bit PCM configuration that stores FRONT_RIGHT,
\* FRONT_LEFT, and the two samples of the first frame changed places.
C13_witness ==
    /\ call.op = "process"
    /\ call.config = "properties_config"
    /\ properties_config.format = "PCM"
    /\ properties_config.pcm_format = "S16LE"
    /\ properties_config.needs_channel_reordering
    /\ properties_config.num_channels = 2
    /\ processed_data("PROPERTIES", InBuffer(5), 4).data = << 3, 4, 1, 2 >>

\* C14: process on a configuration whose needs_channel_reordering is false
\* sets *processed_data to NULL and returns TRUE, for every encoding and every
\* input buffer.
C14_process_without_reordering_is_no_transform ==
    ~aborted =>
        /\ call.op = "process" => call.ret
        /\ \A c \in ConfigIds, frames \in 1..MaxFrames, trailing \in TrailingBytes :
               LET config == Deref(get_config_ptr(c))
                   valid == frames * config.bpf
               IN  ~config.needs_channel_reordering
                       => processed_data(c, InBuffer(valid + trailing), valid).null

\* process was called on a PCM configuration in canonical order and on an
\* A-law/mu-law sink caps configuration, and handed back NULL for both.
C14_witness ==
    /\ call.op = "process"
    /\ call.ret
    /\ properties_config.format = "PCM"
    /\ ~properties_config.needs_channel_reordering
    /\ sink_caps_config.format \in {"ALAW", "MULAW"}
    /\ ~sink_caps_config.needs_channel_reordering
    /\ processed_data("PROPERTIES", InBuffer(5), 4).null
    /\ processed_data("SINKCAPS", InBuffer(5), 4).null

\* C15: a call of process leaves both configurations and the pointer to the
\* active one as they were.
C15_process_leaves_configs_unchanged ==
    [][call'.op = "process" /\ calls' # calls
           => UNCHANGED << properties_config, sink_caps_config,
                           current_config >>]_vars

\* process was called while the properties configuration asked for
\* reordering, and it still does.
C15_witness ==
    /\ call.op = "process"
    /\ call.config = "properties_config"
    /\ properties_config.needs_channel_reordering
    /\ properties_config.format = "PCM"
    /\ calls = MaxCalls

\* The powers of two an alignment can be.
PowersOfTwo == {1, 2, 4, 8, 16, 32, 64}

\* C16: for a PCM configuration get_alignment returns the smallest power of
\* two that is not below the sample width in bytes: 1 for 8-bit, 2 for
\* 16-bit, 4 for 24- and 32-bit and 8 for 64-bit formats.
C16_pcm_alignment_is_sample_width_rounded_up ==
    ~aborted =>
        \A c \in ConfigIds :
            LET config == Deref(get_config_ptr(c))
                bytes == (FormatWidth(config.pcm_format) + 7) \div 8
            IN  (config.format = "PCM" /\ bytes > 0)
                    => /\ get_alignment(c) \in PowersOfTwo
                       /\ get_alignment(c) >= bytes
                       /\ \A p \in PowersOfTwo : p >= bytes => get_alignment(c) <= p

\* C17: get_alignment returns a positive power of two for every
\* configuration the element can hold, and exactly 1 for A-law and mu-law.
C17_alignment_is_positive_power_of_two ==
    ~aborted =>
        \A c \in ConfigIds :
            LET config == Deref(get_config_ptr(c))
            IN  /\ get_alignment(c) \in PowersOfTwo
                /\ config.format \in {"ALAW", "MULAW"} => get_alignment(c) = 1

\* C18: on an element whose properties alone were set, to 2 channels,
\* 48000 Hz and PCM S16LE, the frame size is 4, get_alignment returns 4,
\* get_current_config returns the properties configuration and
\* is_config_ready is true.
C18_stereo_48k_s16le_scenario ==
    (/\ properties_config.format = "PCM"
     /\ properties_config.pcm_format = "S16LE"
     /\ properties_config.sample_rate = 48000
     /\ properties_config.num_channels = 2)
        => /\ get_config_frame_size("CURRENT") = 4
           /\ get_alignment("CURRENT") = 4
           /\ get_current_config = "PROPERTIES"
           /\ is_config_ready("CURRENT")

\* Channel counts the num-channels property admits: the small ones and one
\* beyond 2^26 - 1.
WideChannelCounts == (1..MaxChannels) \cup {67108864}

\* PCM formats of every sample width: 8, 16, 24, 32 and 64 bits.
WidthFormats == {"S8", "S16LE", "S24LE", "S32LE", "F64LE"}

\* C19: update_config_bpf sets bpf to num_channels for A-law and mu-law and
\* to (sample width / 8) * num_channels for PCM, for every sample width and
\* every channel count the num-channels property admits; the 32-bit
\* arithmetic never yields another value, and never 0.
C19_bpf_is_width_times_channels ==
    \A n \in WideChannelCounts :
        /\ \A f \in {"ALAW", "MULAW"} :
               update_config_bpf(
                   [properties_config EXCEPT !.format = f,
                                             !.num_channels = n]).bpf = n
        /\ \A pf \in WidthFormats :
               LET bpf == update_config_bpf(
                              [properties_config EXCEPT !.format = "PCM",
                                                        !.pcm_format = pf,
                                                        !.num_channels = n]).bpf
               IN  /\ bpf = (FormatWidth(pf) \div 8) * n
                   /\ bpf # 0

\* A-law and mu-law caps that carry a rate and a channel count of at least
\* one, and no channel-mask field.
MaskFreeLawCaps ==
    {caps \in LawCaps : /\ caps.has_rate
                        /\ caps.has_channels
                        /\ caps.channels >= 1
                        /\ ~caps.has_mask}

\* C20: a successful caps_to_config from A-law or mu-law caps with rate r,
\* n >= 1 channels and no channel-mask leaves the target with the format of
\* the caps, sample_rate r, num_channels n, the channel positions of the
\* fallback mask for n, bpf n, needs_channel_reordering false and ready
\* true.
C20_law_caps_fill_target_config ==
    \A target \in Configs, caps \in MaskFreeLawCaps :
        LET r == caps_to_config(caps, target)
            n == caps.channels
            fallback == gst_audio_channel_positions_from_mask(
                            n, gst_audio_channel_get_fallback_mask(n),
                            target.channel_positions)
        IN  r.ret
                => /\ r.cfg.format
                          = (IF caps.name = "audio/x-alaw" THEN "ALAW" ELSE "MULAW")
                   /\ r.cfg.sample_rate = caps.rate
                   /\ r.cfg.num_channels = n
                   /\ fallback.ret
                   /\ FirstEntries(r.cfg.channel_positions, n)
                          = FirstEntries(fallback.position, n)
                   /\ r.cfg.bpf = n
                   /\ ~r.cfg.needs_channel_reordering
                   /\ r.cfg.ready

\* The sink caps configuration was set from A-law caps of 8000 Hz and one
\* channel: its frame size is 1.
C20_witness ==
    /\ call.op = "set_config_from_caps"
    /\ call.config = "sink_caps_config"
    /\ call.ret
    /\ sink_caps_config.format = "ALAW"
    /\ sink_caps_config.sample_rate = 8000
    /\ sink_caps_config.num_channels = 1
    /\ sink_caps_config.channel_positions[1] = GST_AUDIO_CHANNEL_POSITION_MONO
    /\ sink_caps_config.bpf = 1
    /\ ~sink_caps_config.needs_channel_reordering
    /\ sink_caps_config.ready

\* A-law and mu-law caps of nine channels: no fallback mask exists for that
\* count, so no channel positions can be derived.
UnmaskableLawCaps ==
    {MakeCaps(nm, Absent, Absent, TRUE, 8000, TRUE, 9, FALSE, {}) :
        nm \in {"audio/x-alaw", "audio/x-mulaw"}}

\* The caps is one that caps_to_config has to refuse: a foreign media type,
\* A-law/mu-law caps without rate or without channels, raw caps that
\* gst_audio_info_from_caps cannot parse, or a channel mask (given or
\* fallback) from which no positions can be derived.
IsRefusedCaps(caps) ==
    LET law == caps.name \in {"audio/x-alaw", "audio/x-mulaw"}
        raw == caps.name \in {"audio/x-raw", "audio/x-unaligned-raw"}
        mask == IF caps.has_mask /\ caps.mask # {} THEN caps.mask
                ELSE gst_audio_channel_get_fallback_mask(caps.channels)
    IN  \/ ~law /\ ~raw
        \/ law /\ (~caps.has_rate \/ ~caps.has_channels)
        \/ raw /\ ~gst_audio_info_from_caps([caps EXCEPT !.name = "audio/x-raw"]).ret
        \/ /\ law /\ caps.has_rate /\ caps.has_channels /\ caps.channels >= 1
           /\ ~gst_audio_channel_positions_from_mask(
                   caps.channels, mask,
                   [i \in 1..MaxChannels |-> GST_AUDIO_CHANNEL_POSITION_INVALID]).ret

\* C21: caps_to_config returns failure for a foreign media type, for
\* A-law/mu-law caps that lack rate or channels, and for raw caps or a
\* channel mask that cannot be parsed; a target whose ready flag was false
\* before such a call has it false afterwards.
C21_refused_caps_fail_and_keep_unready ==
    \A target \in Configs, caps \in CapsInputs \cup UnmaskableLawCaps :
        LET r == caps_to_config(caps, target)
        IN  IsRefusedCaps(caps)
                => /\ ~r.ret
                   /\ ~r.abort
                   /\ ~target.ready => ~r.cfg.ready

\* set_config_from_caps was given A-law caps without a rate for the sink
\* caps configuration: the call failed and the configuration is not ready.
C21_witness ==
    /\ call.op = "set_config_from_caps"
    /\ call.config = "sink_caps_config"
    /\ ~call.ret
    /\ ~aborted
    /\ sink_caps_config.format = "ALAW"
    /\ sink_caps_config.sample_rate = DEFAULT_SAMPLE_RATE
    /\ ~sink_caps_config.ready

\* A-law and mu-law caps that carry a rate and a channels field of 0.
ZeroChannelLawCaps ==
    {caps \in LawCaps : caps.has_rate /\ caps.has_channels /\ caps.channels = 0}

\* C22: caps_to_config on A-law or mu-law caps whose channels field is 0
\* returns failure to its caller without reaching an assertion, and does not
\* set the ready flag of the target.
C22_zero_channels_is_ordinary_failure ==
    \A target \in Configs, caps \in ZeroChannelLawCaps :
        LET r == caps_to_config(caps, target)
        IN  /\ ~r.abort
            /\ ~r.ret
            /\ r.cfg.ready = target.ready

\* C23: config_to_caps fails whenever the configuration's bpf is 0; whenever
\* it fails (bpf 0, or A-law/mu-law positions that give no channel mask) the
\* caps it hands back is NULL; and a get_caps_from_config call leaves the
\* configurations as they were.
C23_config_to_caps_fails_cleanly ==
    /\ [](~aborted =>
            \A config \in Configs :
                LET r == config_to_caps(config)
                IN  /\ config.bpf = 0 => ~r.ret
                    /\ ~r.ret => r.caps = NullCaps)
    /\ [][call'.op = "get_caps_from_config" /\ calls' # calls
              => UNCHANGED << properties_config, sink_caps_config >>]_vars

\* get_caps_from_config failed on an A-law/mu-law properties configuration
\* with a non-zero bpf (its positions give no mask) while the sink caps
\* configuration has bpf 0.
C23_witness ==
    /\ call.op = "get_caps_from_config"
    /\ call.config = "properties_config"
    /\ ~call.ret
    /\ properties_config.format \in {"ALAW", "MULAW"}
    /\ properties_config.bpf # 0
    /\ sink_caps_config.bpf = 0
    /\ ~config_to_caps(sink_caps_config).ret

\* The encoding a caps structure names: PCM with its sample format (under
\* either raw media type), A-law or mu-law.
CapsEncoding(caps) ==
    IF caps.name \in {"audio/x-raw", "audio/x-unaligned-raw"}
    THEN << "PCM", caps.format >>
    ELSE << caps.name, Absent >>

\* The channel layout a caps structure describes, in canonical order: the
\* positions of its channel mask; MONO for one channel without positions;
\* for a zero or missing mask on more channels the unpositioned layout of
\* raw caps with a zero mask, and else the positions of the fallback mask.
CapsLayout(caps) ==
    IF caps.has_mask /\ caps.mask # {} THEN MaskBits(caps.mask)
    ELSE IF caps.channels = 1 THEN << GST_AUDIO_CHANNEL_POSITION_MONO >>
    ELSE IF caps.has_mask /\ caps.name \in {"audio/x-raw", "audio/x-unaligned-raw"}
    THEN [i \in 1..caps.channels |-> GST_AUDIO_CHANNEL_POSITION_NONE]
    ELSE MaskBits(gst_audio_channel_get_fallback_mask(caps.channels))

\* C24: for every caps that caps_to_config accepts, config_to_caps applied
\* to the resulting configuration succeeds and yields caps of the same
\* encoding, rate, channel count and canonical-order channel layout.
C24_caps_round_trip ==
    \A target \in Configs, caps \in CapsInputs :
        LET r == caps_to_config(caps, target)
            out == config_to_caps(r.cfg)
        IN  r.ret
                => /\ out.ret
                   /\ out.caps # NullCaps
                   /\ CapsEncoding(out.caps) = CapsEncoding(caps)
                   /\ out.caps.rate = caps.rate
                   /\ out.caps.channels = caps.channels
                   /\ CapsLayout(out.caps) = CapsLayout(caps)

\* The caps with its media type replaced.
WithName(caps, name) == [caps EXCEPT !.name = name]

\* C25: caps_to_config gives the same result for audio/x-unaligned-raw caps
\* as for audio/x-raw caps with the same fields, and the caps config_to_caps
\* produces for a PCM configuration are audio/x-raw, whichever of the two
\* the configuration was made from.
C25_unaligned_raw_is_treated_as_raw ==
    /\ \A target \in Configs, caps \in RawCaps :
           LET aligned == caps_to_config(WithName(caps, "audio/x-raw"), target)
               unaligned == caps_to_config(
                                WithName(caps, "audio/x-unaligned-raw"), target)
               out == config_to_caps(unaligned.cfg)
           IN  /\ unaligned = aligned
               /\ (unaligned.ret /\ out.caps # NullCaps)
                      => out.caps.name = "audio/x-raw"
    /\ \A config \in Configs :
           LET out == config_to_caps(config)
           IN  (config.format = "PCM" /\ out.caps # NullCaps)
                   => out.caps.name = "audio/x-raw"

\* set_config_from_caps succeeded and left the sink caps configuration as
\* the conversion of audio/x-unaligned-raw caps leaves it; its caps are
\* audio/x-raw.
C25_witness ==
    /\ call.op = "set_config_from_caps"
    /\ call.config = "sink_caps_config"
    /\ call.ret
    /\ sink_caps_config.format = "PCM"
    /\ \E caps \in RawCaps :
           /\ caps.name = "audio/x-unaligned-raw"
           /\ caps_to_config(caps, sink_caps_config).ret
           /\ caps_to_config(caps, sink_caps_config).cfg = sink_caps_config
    /\ config_to_caps(sink_caps_config).caps.name = "audio/x-raw"

FrameFieldsChange ==
    \/ properties_config'.format # properties_config.format
    \/ properties_config'.pcm_format # properties_config.pcm_format
    \/ properties_config'.num_channels # properties_config.num_channels
    \/ properties_config'.channel_positions # properties_config.channel_positions
    \/ properties_config'.reordered_channel_positions
           # properties_config.reordered_channel_positions
    \/ properties_config'.needs_channel_reordering
           # properties_config.needs_channel_reordering

\* C27: after a property set that changes a field of the properties
\* configuration, if that configuration is the current one the published
\* source caps are invalidated and, for format, pcm-format, num-channels and
\* channel-positions, the minimum frame size is the configuration's new bpf;
\* if the sink caps configuration is the current one, neither src_caps_set
\* nor the minimum frame size is touched.
C27_property_change_invalidates_when_current ==
    [][(/\ call'.op = "set_property"
        /\ calls' # calls
        /\ properties_config' # properties_config)
           => IF current_config = "properties_config"
              THEN /\ ~src_caps_set'
                   /\ FrameFieldsChange => min_frame_size' = properties_config'.bpf
              ELSE UNCHANGED << src_caps_set, min_frame_size >>]_vars

\* A property set changed the frame size of the current properties
\* configuration to 2 bytes: the source caps are invalid and the minimum
\* frame size is 2.
C27_witness ==
    /\ call.op = "set_property"
    /\ current_config = "properties_config"
    /\ properties_config.bpf = 2
    /\ min_frame_size = 2
    /\ ~src_caps_set

\* C28, as stated: whenever a field of the properties configuration changes
\* while that configuration is not the current one, the published source
\* caps are invalidated, and its ready flag stays as it was.
C28_change_while_not_current_invalidates ==
    [][(/\ call'.op = "set_property"
        /\ calls' # calls
        /\ properties_config' # properties_config
        /\ current_config # "properties_config")
           => /\ ~src_caps_set'
              /\ properties_config'.ready = properties_config.ready]_vars

\* C28, amended: a change of a field of the properties configuration
\* invalidates the published source caps exactly when that configuration is
\* the current one, leaves them as they are otherwise, and never changes the
\* configuration's ready flag.
C28_change_invalidates_only_when_current ==
    [][(/\ call'.op = "set_property"
        /\ calls' # calls
        /\ properties_config' # properties_config)
           => /\ properties_config'.ready = properties_config.ready
              /\ current_config = "properties_config" => ~src_caps_set'
              /\ current_config # "properties_config"
                     => src_caps_set' = src_caps_set]_vars

\* A property set changed the properties configuration while the sink caps
\* configuration was the current one: the source caps are still published
\* and the properties configuration is still ready.
C28_witness ==
    /\ call.op = "set_property"
    /\ current_config = "sink_caps_config"
    /\ src_caps_set
    /\ properties_config.ready
    /\ properties_config.bpf # min_frame_size

\* C29: setting channel-positions to a non-empty array whose length is not
\* the properties configuration's num_channels is not rejected: it makes
\* num_channels the array length, stores the array as channel_positions and
\* leaves bpf recomputed for the new channel count.
C29_positions_array_sets_channel_count ==
    \A values \in PositionValues :
        LET n == Len(values)
            after == update_config_bpf(
                         store_channel_positions(properties_config, values))
        IN  n # properties_config.num_channels
                => /\ after.num_channels = n
                   /\ FirstEntries(after.channel_positions, n) = values
                   /\ after.bpf
                          = (IF after.format = "PCM"
                             THEN (FormatWidth(after.pcm_format) \div 8) * n
                             ELSE n)

\* A channel-positions array of one entry, FRONT_LEFT, was set on the
\* two-channel 16-bit configuration: one channel, two bytes per frame.
C29_witness ==
    /\ call.op = "set_property"
    /\ call.ret
    /\ calls = 1
    /\ properties_config.num_channels = 1
    /\ properties_config.channel_positions[1]
           = GST_AUDIO_CHANNEL_POSITION_FRONT_LEFT
    /\ properties_config.bpf = 2
    /\ min_frame_size = 2

\* Sample rates the sample-rate property admits: common ones and INT_MAX.
WideSampleRates == {8000, 48000, 2147483647}

\* C30: get_units_per_second gives (sample_rate * bpf, 1) for BYTES and
\* (sample_rate, 1) for DEFAULT, where for every sample rate the property
\* admits and every reachable bpf the numerator is the exact product (the
\* 32-bit multiplication loses nothing); is_unit_format_supported is true
\* exactly for BYTES and DEFAULT.
C30_units_per_second_are_exact ==
    ~aborted =>
        /\ \A format \in GstFormats :
               is_unit_format_supported(format) <=> format \in {"BYTES", "DEFAULT"}
        /\ \A c \in ConfigIds :
               LET config == Deref(get_config_ptr(c))
                   bytes == get_units_per_second("BYTES", c)
                   frames == get_units_per_second("DEFAULT", c)
                   exact == wide_product(config.sample_rate, config.bpf)
               IN  /\ bytes.d = 1 /\ frames.d = 1
                   /\ frames.n.hi * 65536 + frames.n.lo = config.sample_rate
                   /\ exact.carry = 0
                   /\ bytes.n = [hi |-> exact.hi, lo |-> exact.lo]
                   /\ \A rate \in WideSampleRates :
                          LET wide == wide_product(rate, config.bpf)
                          IN  /\ wide.carry = 0
                              /\ guint_product(rate, config.bpf)
                                     = [hi |-> wide.hi, lo |-> wide.lo]

\* C31: every write of a field of either configuration or of the
\* current_config pointer is made by a thread that holds the config mutex,
\* under any interleaving of the property thread with the streaming thread.
C31_config_written_under_mutex_only ==
    [][(\/ properties_config' # properties_config
        \/ sink_caps_config' # sink_caps_config
        \/ current_config' # current_config)
           => config_mutex = ThreadOf(call'.op)]_vars

\* The number of entries of channel_positions and of
\* reordered_channel_positions.
ChannelPositionsCapacity == 64

\* Values of the num-channels property (1 .. INT_MAX): the small ones, the
\* largest the arrays hold and the first they do not.
AcceptedNumChannels ==
    (1..MaxChannels) \cup {ChannelPositionsCapacity, ChannelPositionsCapacity + 1}

\* C32: the channel count of each configuration is between 1 and 64 in
\* every reachable state, and stays so after num-channels is set to any
\* value the property accepts (so that no operation goes beyond the 64
\* entries of a position array).
C32_num_channels_within_capacity ==
    /\ \A config \in Configs :
           config.num_channels \in 1..ChannelPositionsCapacity
    /\ \A n \in AcceptedNumChannels :
           n # properties_config.num_channels =>
               update_config_bpf(
                   [set_config_channels(properties_config, n, {}, TRUE).cfg
                    EXCEPT !.num_channels = n]).num_channels
                   \in 1..ChannelPositionsCapacity

\* A configuration whose first n channel positions are those of `values`.
WithPositions(config, values) ==
    [config EXCEPT
        !.num_channels = Len(values),
        !.channel_positions =
            [i \in 1..MaxChannels |->
                IF i <= Len(values) THEN values[i]
                ELSE config.channel_positions[i]]]

\* C33: update_channel_reordering_flag is idempotent: applied a second time
\* to its own result it gives the same needs_channel_reordering, the same
\* reordered_channel_positions, the same channel_positions and the same
\* return value as the first time (the whole result is the same), whatever
\* positions the configuration holds, and channel_positions is never
\* written.
C33_update_reorder_flag_is_idempotent ==
    \A config \in Configs :
        \A values \in PositionLists(config.num_channels) :
            LET once == update_channel_reordering_flag(
                            WithPositions(config, values))
            IN  /\ update_channel_reordering_flag(once.cfg) = once
                /\ once.cfg.channel_positions
                       = WithPositions(config, values).channel_positions

\* C33 witness: the properties configuration holds positions that
\* update_channel_reordering_flag found out of order, and a second
\* application leaves it as it is.
C33_witness ==
    /\ call.op = "set_property"
    /\ calls = 1
    /\ properties_config.needs_channel_reordering
    /\ properties_config.reordered_channel_positions
           # properties_config.channel_positions
    /\ update_channel_reordering_flag(properties_config).cfg = properties_config

\* The channel-positions value get_property reports: the first num_channels
\* positions of the properties configuration.
CurrentChannelPositions ==
    [null |-> FALSE,
     values |-> FirstEntries(properties_config.channel_positions,
                             properties_config.num_channels)]

\* A property is set to the value it already has.
SetToCurrentValue ==
    \/ set_property_format(properties_config.format)
    \/ set_property_pcm_format(properties_config.pcm_format)
    \/ set_property_sample_rate(properties_config.sample_rate)
    \/ set_property_num_channels(properties_config.num_channels)
    \/ set_property_interleaved(properties_config.interleaved)
    \/ set_property_channel_positions(CurrentChannelPositions)

\* C34: setting any property to the value it already has does nothing: the
\* explicit configuration keeps every field, the published source caps are
\* not invalidated and the minimum frame size is not updated.
C34_equal_value_set_does_nothing ==
    [][SetToCurrentValue
          => UNCHANGED << properties_config, src_caps_set, min_frame_size >>]_vars

\* A GValueArray with no values.
EmptyValArray == [null |-> FALSE, values |-> << >>]

\* C35: setting channel-positions to an empty array is rejected with an
\* element error, and the explicit configuration, the negotiated
\* configuration, the active pointer, the published-caps flag and the
\* minimum frame size all stay as they were.
C35_empty_positions_array_is_rejected ==
    [][set_property_channel_positions(EmptyValArray)
          => /\ ~call'.ret
             /\ UNCHANGED << properties_config, sink_caps_config,
                             current_config, src_caps_set,
                             min_frame_size >>]_vars

\* C35 witness: an empty array was turned down while the properties
\* configuration held custom positions and the source caps were published;
\* both are still there.
C35_witness ==
    /\ call.op = "set_property"
    /\ ~call.ret
    /\ properties_config.needs_channel_reordering
    /\ src_caps_set

\* Bytes of one sample of a configuration: the PCM sample width, or 1 for
\* A-law and mu-law.
SampleBytes(config) ==
    IF config.format = "PCM" THEN FormatWidth(config.pcm_format) \div 8 ELSE 1

\* One input frame of a configuration in which every byte of a sample holds
\* the position code of the channel the sample belongs to.
LabelledFrame(config) ==
    [p \in 1..(SampleBytes(config) * config.num_channels) |->
        config.channel_positions[((p - 1) \div SampleBytes(config)) + 1]]

\* The channel positions, in order, of the samples of the frame that leaves
\* process when LabelledFrame goes in: those of the new buffer, or of the
\* input buffer when *processed_data is NULL.
ChannelOrderAfterProcess(config) ==
    LET ptr == Deref(get_config_ptr(config))
        frame == LabelledFrame(ptr)
        r == processed_data(config, frame, Len(frame))
        out == IF r.null THEN frame ELSE r.data
    IN  [i \in 1..ptr.num_channels |-> out[(i - 1) * SampleBytes(ptr) + 1]]

\* C36: whenever the current configuration is ready, whatever its encoding,
\* and holds a valid set of positions that config_to_caps turns into caps,
\* the samples of a frame leave process in the channel order of the layout
\* config_to_caps publishes.
C36_data_order_is_published_order ==
    LET ptr == Deref(get_config_ptr("CURRENT"))
    IN  (/\ ~aborted
         /\ current_config # "NULL"
         /\ ptr.ready
         /\ SampleBytes(ptr) > 0
         /\ gst_audio_check_valid_channel_positions(
                ptr.channel_positions, ptr.num_channels, FALSE)
         /\ config_to_caps(ptr).ret)
            => ChannelOrderAfterProcess("CURRENT") = config_to_caps(ptr).positions

\* C37: stop changes nothing but sink_caps_config.ready: every other field
\* of the sink caps configuration keeps its value, the properties
\* configuration and the current_config pointer are unchanged, and
\* get_config_frame_size and config_to_caps of the sink caps configuration
\* answer after the stop what they answered before it.
C37_stop_changes_only_ready ==
    [][call'.op = "stop"
          => /\ sink_caps_config' = [sink_caps_config EXCEPT !.ready = FALSE]
             /\ UNCHANGED << properties_config, current_config >>
             /\ get_config_frame_size("SINKCAPS")'
                    = get_config_frame_size("SINKCAPS")
             /\ config_to_caps(sink_caps_config')
                    = config_to_caps(sink_caps_config)]_vars

\* C37 witness: after a stop the sink caps configuration is not ready and
\* still holds the A-law values of the last negotiation, from which the
\* frame size and the caps are answered.
C37_witness ==
    /\ call.op = "stop"
    /\ ~sink_caps_config.ready
    /\ sink_caps_config.format = "ALAW"
    /\ sink_caps_config.sample_rate = 8000
    /\ get_config_frame_size("SINKCAPS") = sink_caps_config.num_channels
    /\ config_to_caps(sink_caps_config).ret
    /\ config_to_caps(sink_caps_config).caps.name = "audio/x-alaw"

\* The configuration the PROP_NUM_CHANNELS case stores when the new count
\* differs from the one of `config`.
num_channels_changed(config, new_num_channels) ==
    update_config_bpf(
        [set_config_channels(config, new_num_channels, {}, TRUE).cfg
         EXCEPT !.num_channels = new_num_channels])

\* The configuration the PROP_CHANNEL_POSITIONS case stores for NULL.
channel_positions_unset(config) ==
    update_config_bpf(
        IF config.num_channels > 0
        THEN set_config_channels(config, config.num_channels, {}, TRUE).cfg
        ELSE config)

\* Channel counts given to num-channels: the small ones, and nine, the first
\* count without a fallback mask.
DiscardingChannelCounts == (1..MaxChannels) \cup {9}

\* The first entries of the position array of `config` that `count` channels
\* use, as far as the model keeps them.
UsedPositions(config, count) ==
    FirstEntries(config.channel_positions,
                 IF count < MaxChannels THEN count ELSE MaxChannels)

\* C38: changing num-channels to a different value, or setting
\* channel-positions to NULL, discards custom positions: whatever positions
\* the properties configuration held, afterwards needs_channel_reordering is
\* false and the positions of the (new) channel count are those of its
\* default layout, the same as if no custom positions had ever been given.
C38_custom_positions_are_discarded ==
    \A values \in PositionLists(properties_config.num_channels) :
        LET custom == update_channel_reordering_flag(
                          WithPositions(properties_config, values)).cfg
        IN  /\ \A n \in DiscardingChannelCounts :
                   n # properties_config.num_channels =>
                       /\ ~num_channels_changed(custom, n).needs_channel_reordering
                       /\ UsedPositions(num_channels_changed(custom, n), n)
                              = UsedPositions(
                                    num_channels_changed(properties_config, n), n)
            /\ ~channel_positions_unset(custom).needs_channel_reordering
            /\ UsedPositions(channel_positions_unset(custom),
                             custom.num_channels)
                   = UsedPositions(channel_positions_unset(properties_config),
                                   custom.num_channels)

C40_caps_do_not_depend_on_interleaved ==
    \A config \in Configs :
        config_to_caps([config EXCEPT !.interleaved = ~config.interleaved])
            = config_to_caps(config)

\* C40 witness: caps were asked of a PCM properties configuration whose
\* interleaved flag is down; they are produced and say "interleaved".
C40_witness ==
    /\ call.op = "get_caps_from_config"
    /\ call.config = "properties_config"
    /\ call.ret
    /\ properties_config.format = "PCM"
    /\ ~properties_config.interleaved
    /\ config_to_caps(properties_config).caps.layout = "interleaved"

=============================================================================
